---------------------------- MODULE Spec2Model ----------------------------
(***************************************************************************)
(* Model of the scraping orchestration engine of electron/index.ts: the    *)
(* IPC handlers of the run state machine, startScraping, the pagination    *)
(* controller scrapeDataFunction, the two-phase controller                 *)
(* handleContactSearch, cancellableDelay, waitForCookiesUpdate,            *)
(* extractHeadersFromCookies, setPageInPayload and                         *)
(* transformResultToCsvRow.                                                *)
(*                                                                         *)
(* The main process is single threaded: every IPC handler, timer callback  *)
(* and promise continuation runs to completion, and the microtasks a       *)
(* callback schedules (the code after an `await` whose promise it          *)
(* resolved) run before the next callback.  One action of the model is one *)
(* such callback together with the continuations it releases.             *)
(***************************************************************************)
EXTENDS Integers, Sequences, FiniteSets, TLC

(***************************************************************************)
(* Bounds of the model.                                                    *)
(***************************************************************************)
MaxRuns == 2      \* accepted start requests in one behaviour
MaxTarget == 2    \* largest totalResults a start request carries
MaxPage == 2      \* largest number of records in one response
MaxContacts == 30 \* largest totalResults of a run with full search pages
MaxFields == 3    \* largest number of fields of a payload template, nested ones included
MaxCycles == 2    \* request payloads built from one template
MaxCookies == 4   \* largest number of cookies of a bundle examined on its own
MaxPresent == 2   \* source fields a raw record holds, unless it holds all
MaxOffset == 2    \* largest start index of a run examined for its page numbers
MaxOffsetTarget == 3 \* largest totalResults of such a run
MaxCodes == 3     \* largest number of codes of a scoop's type list or topic list

(***************************************************************************)
(* Program constants.                                                      *)
(***************************************************************************)
PersonSearchPageSize == 25

NoReq == 0        \* no request payload built yet
NoCtl == 0        \* delayCancel === null
NoData == [set |-> FALSE]   \* scrapeData === null

Min2(a, b) == IF a <= b THEN a ELSE b

CeilDiv(a, b) == (a + b - 1) \div b

(***************************************************************************)
(* Cookies.  A cookie is [name, value]; a value is a sequence of one       *)
(* character strings over the alphabet a b 2 % ".                          *)
(***************************************************************************)
Quote == "\""

HexVal(ch) == CASE ch = "2" -> 2
                [] ch = "a" -> 10
                [] ch = "b" -> 11
                [] OTHER -> -1

\* the character of a decoded byte below 0x80 that the alphabet can produce
ByteChar(n) == CASE n = 34 -> Quote
                 [] n = 42 -> "*"
                 [] n = 43 -> "+"
                 [] OTHER -> "?"

\* decodeURIComponent: "%XY" is one byte; a byte >= 0x80 that is not part of
\* a well formed UTF-8 sequence, or a "%" without two hex digits, throws
\* URIError.  With the hex digits 2, a, b every byte >= 0x80 is a lone
\* continuation byte (0xA2 .. 0xBB).
RECURSIVE DecodeThrows(_)
DecodeThrows(v) ==
    IF v = <<>> THEN FALSE
    ELSE IF Head(v) # "%" THEN DecodeThrows(Tail(v))
    ELSE IF Len(v) < 3 THEN TRUE
    ELSE IF HexVal(v[2]) < 0 \/ HexVal(v[3]) < 0 THEN TRUE
    ELSE IF 16 * HexVal(v[2]) + HexVal(v[3]) >= 128 THEN TRUE
    ELSE DecodeThrows(SubSeq(v, 4, Len(v)))

RECURSIVE decodeURIComponent(_)
decodeURIComponent(v) ==
    IF v = <<>> THEN <<>>
    ELSE IF Head(v) # "%" THEN <<Head(v)>> \o decodeURIComponent(Tail(v))
    ELSE <<ByteChar(16 * HexVal(v[2]) + HexVal(v[3]))>>
             \o decodeURIComponent(SubSeq(v, 4, Len(v)))

\* .replace(/^"|"$/g, ''): one leading and one trailing quote are removed
StripQuotes(v) ==
    LET a == IF v # <<>> /\ Head(v) = Quote THEN Tail(v) ELSE v
    IN  IF a # <<>> /\ a[Len(a)] = Quote THEN SubSeq(a, 1, Len(a) - 1) ELSE a

\* cookieDict[name]: the last cookie of that name wins; <<>> when absent
\* (undefined and '' are both falsy, and `|| ''` maps undefined to '')
RECURSIVE CookieDict(_, _)
CookieDict(cookies, name) ==
    IF cookies = <<>> THEN <<>>
    ELSE IF cookies[Len(cookies)].name = name THEN cookies[Len(cookies)].value
    ELSE CookieDict(SubSeq(cookies, 1, Len(cookies) - 1), name)

\* cookies.map(c => `${c.name}=${c.value}`).join('; ')
RECURSIVE CookieHeader(_)
CookieHeader(cookies) ==
    IF cookies = <<>> THEN <<>>
    ELSE <<cookies[1].name, "=">> \o cookies[1].value
           \o (IF Len(cookies) > 1 THEN <<"; ">> ELSE <<>>)
           \o CookieHeader(Tail(cookies))

\* the test of line 484 without its last operand
HeadersThrowNoSession(cookies) ==
    \/ DecodeThrows(CookieDict(cookies, "ziid"))
    \/ DecodeThrows(CookieDict(cookies, "zisession"))
    \/ CookieDict(cookies, "userId") = <<>>
    \/ CookieDict(cookies, "ziaccesstoken") = <<>>
    \/ StripQuotes(decodeURIComponent(CookieDict(cookies, "ziid"))) = <<>>

\* extractHeadersFromCookies throws: a decode step throws, or a token is falsy
HeadersThrow(cookies) ==
    \/ DecodeThrows(CookieDict(cookies, "ziid"))
    \/ DecodeThrows(CookieDict(cookies, "zisession"))
    \/ CookieDict(cookies, "userId") = <<>>
    \/ CookieDict(cookies, "ziaccesstoken") = <<>>
    \/ StripQuotes(decodeURIComponent(CookieDict(cookies, "ziid"))) = <<>>
    \/ StripQuotes(decodeURIComponent(CookieDict(cookies, "zisession"))) = <<>>

\* the session dependent slots of the returned header set
extractHeadersFromCookies(cookies) ==
    [user          |-> CookieDict(cookies, "userId"),
     xziaccesstoken |-> CookieDict(cookies, "ziaccesstoken"),
     xziid         |-> StripQuotes(decodeURIComponent(CookieDict(cookies, "ziid"))),
     xzisession    |-> StripQuotes(decodeURIComponent(CookieDict(cookies, "zisession"))),
     Cookie        |-> CookieHeader(cookies)]

NoHeaders == [user |-> <<>>, xziaccesstoken |-> <<>>, xziid |-> <<>>,
              xzisession |-> <<>>, Cookie |-> <<>>]

Bundle(ch) == << [name |-> "userId", value |-> <<ch>>],
                 [name |-> "ziaccesstoken", value |-> <<ch>>],
                 [name |-> "ziid", value |-> <<"%", "2", "2", ch, "%", "2", "2">>],
                 [name |-> "zisession", value |-> <<ch>>] >>

\* a bundle without zisession
BadBundle == SubSeq(Bundle("a"), 1, 3)

\* a start request carries the first valid bundle or the invalid one, a
\* refresh the second valid bundle or the invalid one
StartBundles == {Bundle("a"), BadBundle}

UpdateBundles == {Bundle("b"), BadBundle}

\* the record variants a start request selects: one of the three single
\* request variants (they differ in URL and row schema only) and the
\* two-phase variant
ApiTypes == {"Company Search", "Contact Search"}

\* an apiType that is none of the four: `apiType: string` of ScrapeData
\* admits it and getApiUrl throws for it
UnknownType == "Other"

\* the start index the window sends unless the user changed it; the main
\* process stores it with the run config and never reads it
DefaultStartIndex == 0


(***************************************************************************)
(* State.                                                                  *)
(*   isScraping, isPaused, wasStopped, scrapeData, delayCancel are the     *)
(*   module level variables of index.ts.  cookieWaiters is the list of     *)
(*   `once('update-cookies')` listeners registered by waitForCookiesUpdate,*)
(*   by the invocation that registered each.  ctl[r] holds the locals of   *)
(*   the r-th invocation of startScraping and of the controller it runs.   *)
(*   lastOp, notes, sent and written record the last callback that had an  *)
(*   effect, the notifications it sent to the window, the requests it      *)
(*   issued and the rows it wrote to a sink.  call holds the arguments,    *)
(*   the heap and the result of one of the functions without side effects  *)
(*   on the run state when that function is examined on its own.           *)
(***************************************************************************)
VARIABLES isScraping, isPaused, wasStopped, scrapeData, delayCancel,
          cookieWaiters, ctl, lastOp, notes, sent, written, call

vars == <<isScraping, isPaused, wasStopped, scrapeData, delayCancel,
          cookieWaiters, ctl, lastOp, notes, sent, written, call>>

\* the program state as one record, so that the sequential code of a
\* callback is a composition of functions on it
World == [isScraping |-> isScraping, isPaused |-> isPaused,
          wasStopped |-> wasStopped, scrapeData |-> scrapeData,
          delayCancel |-> delayCancel, cookieWaiters |-> cookieWaiters,
          ctl |-> ctl, notes |-> <<>>, sent |-> <<>>, written |-> <<>>]

\* a callback that changes nothing and sends nothing leaves no trace: the
\* record of the last step stays that of the last callback with an effect
Commit(w, op) ==
    IF w = World THEN UNCHANGED vars
    ELSE /\ isScraping' = w.isScraping
         /\ isPaused' = w.isPaused
         /\ wasStopped' = w.wasStopped
         /\ scrapeData' = w.scrapeData
         /\ delayCancel' = w.delayCancel
         /\ cookieWaiters' = w.cookieWaiters
         /\ ctl' = w.ctl
         /\ notes' = w.notes
         /\ sent' = w.sent
         /\ written' = w.written
         /\ call' = call
         /\ lastOp' = op

\* the callback of the last step: its name, the controller it belongs to
\* and its input (the number of results of a response, 1 or 0 for a valid
\* or invalid bundle of update-cookies)
Op(name, c, arg) == [op |-> name, c |-> c, arg |-> arg]

Runs == 1 .. Len(ctl)

TwoPhase(r) == r.apiType = "Contact Search"

Live(r) == r.pc # "done"

\* webContents.send(type, ...): val is the progress value, 0 otherwise
Emit(w, type, run, val) ==
    [w EXCEPT !.notes = Append(@, [type |-> type, run |-> run, val |-> val])]

EmitError(w, c) ==
    [Emit(w, "error", c, 0) EXCEPT !.ctl[c].errored = TRUE]

\* Math.min((n / d) * 100, 100), kept exact as the percentage times d
ProgressPercentageUncapped(n, d) == 100 * n

ProgressPercentage(n, d) == Min2(100 * n, 100 * d)

\* totalApiCalls of handleContactSearch (lines 269-270)
TotalApiCalls(total) == CeilDiv(total, PersonSearchPageSize) + total

EmitProgress(w, c, n, d) ==
    [Emit(w, "progress-update", c, ProgressPercentage(n, d))
       EXCEPT !.ctl[c].lastProgress = ProgressPercentage(n, d)]

\* the locals of a controller are gone once it returned
Returned(r) ==
    [r EXCEPT !.pc = "done", !.page = 1, !.req = NoReq, !.resultsCollected = 0,
              !.personIds = <<>>, !.socialUrlsMap = <<>>, !.idx = 0,
              !.apiCallsCompleted = 0,
              !.authRetry = FALSE, !.lastProgress = 0]

\* startScraping after the controller returned (lines 151-158)
ControllerReturned(w, c) ==
    LET w1 == [w EXCEPT !.ctl[c] = [Returned(@) EXCEPT !.sink = "closed"],
                        !.isScraping = FALSE]
    IN  IF ~w.wasStopped
        THEN [Emit(w1, "scraping-finished", c, 0) EXCEPT !.ctl[c].finished = TRUE]
        ELSE w1

\* the loop head of step 2 without its isScraping test
DetailIterationUnstopped(w, c) ==
    LET r == w.ctl[c]
    IN  IF r.idx > Len(r.personIds) THEN ControllerReturned(w, c)
        ELSE IF r.resultsCollected >= r.totalResults
        THEN ControllerReturned(w, c)
        ELSE [w EXCEPT !.ctl[c].pc = "req2",
                       !.ctl[c].req = r.personIds[r.idx],
                       !.ctl[c].authRetry = FALSE,
                       !.sent = Append(@, [c |-> c, kind |-> "detail",
                                           arg |-> r.personIds[r.idx],
                                           headers |-> r.headers])]

\* for (const personId of personIds): the loop head and the request of
\* one iteration (lines 356-376)
DetailIteration(w, c) ==
    LET r == w.ctl[c]
    IN  IF r.idx > Len(r.personIds) THEN ControllerReturned(w, c)
        ELSE IF ~w.isScraping \/ r.resultsCollected >= r.totalResults
        THEN ControllerReturned(w, c)
        ELSE [w EXCEPT !.ctl[c].pc = "req2",
                       !.ctl[c].req = r.personIds[r.idx],
                       !.ctl[c].authRetry = FALSE,
                       !.sent = Append(@, [c |-> c, kind |-> "detail",
                                           arg |-> r.personIds[r.idx],
                                           headers |-> r.headers])]

\* an iteration of the for-of loop that takes the identifier of the last one
SameIdentifier(w, c) == DetailIteration(w, c)

\* the next iteration of the for-of loop (`continue`, or the end of the body)
NextIdentifier(w, c) == DetailIteration([w EXCEPT !.ctl[c].idx = @ + 1], c)

\* leaving the while loop: scrapeDataFunction returns, handleContactSearch
\* goes on to step 2
PageLoopExit(w, c) ==
    IF TwoPhase(w.ctl[c])
    THEN DetailIteration([w EXCEPT !.ctl[c].idx = 1], c)
    ELSE ControllerReturned(w, c)

\* deep copy of the payload, setPageInPayload, axios.post (lines 191-196)
IssuePageRequest(w, c) ==
    LET r == w.ctl[c]
    IN  [w EXCEPT !.ctl[c].pc = "req1",
                  !.ctl[c].req = r.page,
                  !.ctl[c].authRetry = FALSE,
                  !.sent = Append(@, [c |-> c, kind |-> "page", arg |-> r.page,
                                      headers |-> r.headers])]

\* what the while condition counts
Collected(r) == IF TwoPhase(r) THEN Len(r.personIds) ELSE r.resultsCollected

\* the code after the pause-wait of the while loop (lines 187-196)
AfterPauseCheck(w, c) ==
    IF ~w.isScraping THEN PageLoopExit(w, c) ELSE IssuePageRequest(w, c)

\* one evaluation of the while head up to the first await (lines 175-196)
PageIteration(w, c) ==
    LET r == w.ctl[c]
    IN  IF ~(w.isScraping /\ Collected(r) < r.totalResults) THEN PageLoopExit(w, c)
        ELSE IF w.isPaused THEN [w EXCEPT !.ctl[c].pc = "pause1"]
        ELSE AfterPauseCheck(w, c)

\* cancellableDelay: the new closure replaces whatever delayCancel held
StartDelay(w, c, pc) ==
    [w EXCEPT !.ctl[c].pc = pc, !.delayCancel = c]

\* the code after `await cancellableDelay(delay)`
AfterDelay(w, c) ==
    IF w.ctl[c].pc = "delay1"
    THEN (IF ~w.isScraping THEN PageLoopExit(w, c) ELSE PageIteration(w, c))
    ELSE (IF w.isPaused THEN [w EXCEPT !.ctl[c].pc = "pause2"]
          ELSE IF ~w.isScraping THEN ControllerReturned(w, c)
          ELSE NextIdentifier(w, c))

\* the code after the pause-wait resolved
AfterPause(w, c) ==
    IF w.ctl[c].pc = "pause1" THEN AfterPauseCheck(w, c)
    ELSE IF ~w.isScraping THEN ControllerReturned(w, c)
    ELSE NextIdentifier(w, c)

\* the code after `await waitForCookiesUpdate()`: continue
AfterCookies(w, c) ==
    IF w.ctl[c].pc = "cred1" THEN PageIteration(w, c) ELSE NextIdentifier(w, c)


(***************************************************************************)
(* Response handling of the pagination loop.                               *)
(***************************************************************************)
\* socialUrlsParsed.linkedin of a record without social profiles ('')
NoSocial == [linkedin |-> 0]

\* the row of a search result: it names no identifier of step 1
ResultRow(c) == [c |-> c, id |-> NoReq, LinkedIn |-> NoSocial.linkedin]

\* csvStringifier.write(csvRow); resultsCollected += 1; progress-update
WriteRow(w, c) ==
    LET r == w.ctl[c]
    IN  EmitProgress([w EXCEPT !.ctl[c].rows = @ + 1,
                               !.ctl[c].resultsCollected = @ + 1,
                               !.written = Append(@, ResultRow(c))],
                     c, r.resultsCollected + 1, r.totalResults)

\* for (const result of results) of scrapeDataFunction without its break
RECURSIVE WriteResultsNoBreak(_, _, _)
WriteResultsNoBreak(w, c, k) ==
    IF k = 0 THEN w ELSE WriteResultsNoBreak(WriteRow(w, c), c, k - 1)

\* for (const result of results) of scrapeDataFunction (lines 210-227)
RECURSIVE WriteResults(_, _, _)
WriteResults(w, c, k) ==
    IF k = 0 THEN w
    ELSE LET w1 == WriteRow(w, c)
         IN  IF w1.ctl[c].resultsCollected >= w1.ctl[c].totalResults THEN w1
             ELSE WriteResults(w1, c, k - 1)

\* the identifier the server returns at position i of a page
PersonId(page, i) == 100 * page + i

\* person.socialUrlsParsed of the search result with that identifier: every
\* second person has a linkedin profile, which names the person
SocialUrlsParsed(id) == IF id % 2 = 1 THEN [linkedin |-> id] ELSE NoSocial

\* for (const person of results) of step 1, every person carrying a
\* personID (lines 307-318)
RECURSIVE PushPersonIds(_, _, _, _)
PushPersonIds(w, c, i, j) ==
    LET r == w.ctl[c]
    IN  IF i > j \/ Len(r.personIds) >= r.totalResults THEN w
        ELSE LET personId == PersonId(r.page, i)
             IN  PushPersonIds(
                     [w EXCEPT !.ctl[c].personIds = Append(@, personId),
                               !.ctl[c].socialUrlsMap =
                                   (personId :> SocialUrlsParsed(personId)) @@ @],
                     c, i + 1, j)

\* the code after a page was consumed: page += 1, the exit test, the delay
AfterPage(w, c) ==
    LET w1 == [w EXCEPT !.ctl[c].page = @ + 1]
    IN  IF Collected(w1.ctl[c]) >= w1.ctl[c].totalResults \/ ~w1.isScraping
        THEN PageLoopExit(w1, c)
        ELSE StartDelay(w1, c, "delay1")

\* a page response with k results whose empty page is never reported
PageSuccessSilent(w, c, k) ==
    LET r == w.ctl[c]
    IN  IF k = 0 THEN PageLoopExit(w, c)
        ELSE IF TwoPhase(r)
        THEN LET w1 == PushPersonIds(w, c, 1, k)
                 n  == r.apiCallsCompleted + 1
                 d  == TotalApiCalls(r.totalResults)
             IN  AfterPage(EmitProgress([w1 EXCEPT !.ctl[c].apiCallsCompleted = n],
                                        c, n, d), c)
        ELSE AfterPage(WriteResults(w, c, k), c)

\* a page response with k results
PageSuccess(w, c, k) ==
    LET r == w.ctl[c]
    IN  IF k = 0
        THEN PageLoopExit(IF Collected(r) = 0 THEN EmitError(w, c) ELSE w, c)
        ELSE IF TwoPhase(r)
        THEN LET w1 == PushPersonIds(w, c, 1, k)
                 n  == r.apiCallsCompleted + 1
                 d  == TotalApiCalls(r.totalResults)
             IN  AfterPage(EmitProgress([w1 EXCEPT !.ctl[c].apiCallsCompleted = n],
                                        c, n, d), c)
        ELSE AfterPage(WriteResults(w, c, k), c)

\* the catch advancing the page counter before the wait
PageAuthErrorAdvance(w, c) ==
    [Emit(w, "request-new-cookies", c, 0)
       EXCEPT !.ctl[c].pc = "cred1", !.ctl[c].authRetry = TRUE,
              !.ctl[c].page = @ + 1,
              !.cookieWaiters = Append(@, c)]

\* catch of the while loop, 401/403 (lines 242-245): waitForCookiesUpdate
\* registers a once listener
PageAuthError(w, c) ==
    [Emit(w, "request-new-cookies", c, 0)
       EXCEPT !.ctl[c].pc = "cred1", !.ctl[c].authRetry = TRUE,
              !.cookieWaiters = Append(@, c)]

\* catch of the while loop, any other error (lines 246-249)
PageOtherError(w, c) == PageLoopExit(EmitError(w, c), c)

(***************************************************************************)
(* Response handling of step 2 of handleContactSearch.                     *)
(***************************************************************************)
\* the row of a contact without the merge of lines 389-393
ContactRowUnmerged(r, c) ==
    [c |-> c, id |-> r.personIds[r.idx], LinkedIn |-> NoSocial.linkedin]

\* the row of a contact of the detail response for personIds[idx]: the
\* social profiles stored for that identifier are merged in (lines 389-395)
ContactRow(r, c) ==
    LET personId   == r.personIds[r.idx]
        socialUrls == IF personId \in DOMAIN r.socialUrlsMap
                      THEN r.socialUrlsMap[personId] ELSE NoSocial
    IN  [c |-> c, id |-> personId, LinkedIn |-> socialUrls.linkedin]

\* for (const contact of contacts) (lines 387-402)
RECURSIVE WriteContacts(_, _, _)
WriteContacts(w, c, m) ==
    IF m = 0 THEN w
    ELSE LET w1 == [w EXCEPT !.ctl[c].rows = @ + 1,
                             !.ctl[c].resultsCollected = @ + 1,
                             !.written = Append(@, ContactRow(w.ctl[c], c))]
         IN  IF ~w1.isScraping
                \/ w1.ctl[c].resultsCollected >= w1.ctl[c].totalResults
             THEN w1
             ELSE WriteContacts(w1, c, m - 1)

\* a detail response with m contacts (lines 377-426)
DetailSuccess(w, c, m) ==
    IF m = 0 THEN NextIdentifier(w, c)
    ELSE LET r  == w.ctl[c]
             w1 == WriteContacts(w, c, m)
             n  == r.apiCallsCompleted + 1
             d  == TotalApiCalls(r.totalResults)
             w2 == EmitProgress([w1 EXCEPT !.ctl[c].apiCallsCompleted = n], c, n, d)
         IN  IF ~w2.isScraping
                \/ w2.ctl[c].resultsCollected >= w2.ctl[c].totalResults
             THEN ControllerReturned(w2, c)
             ELSE StartDelay(w2, c, "delay2")

\* catch of the for loop, 401/403 (lines 429-432)
DetailAuthError(w, c) ==
    [Emit(w, "request-new-cookies", c, 0)
       EXCEPT !.ctl[c].pc = "cred2", !.ctl[c].authRetry = TRUE,
              !.cookieWaiters = Append(@, c)]

\* catch of the for loop, any other error (lines 433-436)
DetailOtherError(w, c) == ControllerReturned(EmitError(w, c), c)


(***************************************************************************)
(* startScraping and the IPC handlers.                                     *)
(***************************************************************************)
StartData == [apiType : ApiTypes \cup {UnknownType}, cookies : StartBundles,
              totalResults : 1 .. MaxTarget, startIdx : {DefaultStartIndex}]

\* the locals of a fresh invocation of startScraping.  apiType,
\* totalResults and headers are the locals of startScraping; page,
\* resultsCollected, personIds, apiCallsCompleted those of the controller;
\* idx is the position of the for-of loop and req the page number or
\* identifier of the payload built last; pc is the await the invocation is
\* suspended in.  sink and rows are the state of its csvStringifier.
\* authRetry (the last request failed with 401/403 and none was issued
\* since), stopInvoked (stop-scraping was received while the run was the
\* current one), finished, errored (the notification was sent for the run)
\* and lastProgress (the last progress value sent) record its history.
NewCtl(data) ==
    [apiType |-> data.apiType, totalResults |-> data.totalResults,
     headers |-> NoHeaders, pc |-> "start", page |-> 1, req |-> NoReq,
     resultsCollected |-> 0, personIds |-> <<>>, socialUrlsMap |-> <<>>,
     idx |-> 0,
     apiCallsCompleted |-> 0, sink |-> "none", rows |-> 0,
     authRetry |-> FALSE, stopInvoked |-> FALSE, finished |-> FALSE,
     errored |-> FALSE, lastProgress |-> 0]

\* startScraping up to its first await (lines 124-149)
startScraping(w, c) ==
    LET d == w.scrapeData
    IN  IF HeadersThrow(d.cookies)
        THEN [EmitError(w, c) EXCEPT !.isScraping = FALSE, !.ctl[c].pc = "done"]
        ELSE LET h  == extractHeadersFromCookies(d.cookies)
                 w1 == [w EXCEPT !.scrapeData.headers = h, !.ctl[c].headers = h,
                                 !.ctl[c].sink = "open"]
             IN  IF d.apiType \in ApiTypes
                 THEN PageIteration(w1, c)
                 \* getApiUrl throws 'Unknown API type.': the catch of
                 \* startScraping sends the error and nothing else
                 ELSE [EmitError(w1, c) EXCEPT !.ctl[c].pc = "done"]

\* ipcMain.on('start-scraping') past the isScraping test (lines 57-61)
AcceptStart(w, data) ==
    LET c == Len(w.ctl) + 1
    IN  startScraping([w EXCEPT !.isScraping = TRUE, !.isPaused = FALSE,
                                !.wasStopped = FALSE,
                                !.scrapeData = [set |-> TRUE, apiType |-> data.apiType,
                                                cookies |-> data.cookies,
                                                totalResults |-> data.totalResults,
                                                startIdx |-> data.startIdx,
                                                headers |-> NoHeaders],
                                !.ctl = Append(@, NewCtl(data))], c)

\* the handler without its isScraping test
StartHandlerNoGuard(w, data) == AcceptStart(w, data)

\* ipcMain.on('start-scraping') (lines 52-62)
StartHandler(w, data) ==
    IF w.isScraping THEN Emit(w, "error", 0, 0)
    ELSE AcceptStart(w, data)

StartScraping(data) ==
    /\ isScraping \/ Len(ctl) < MaxRuns
    /\ Commit(StartHandler(World, data), Op("start-scraping", 0, 0))

\* ipcMain.on('pause-scraping') (lines 64-66)
PauseScraping ==
    Commit([World EXCEPT !.isPaused = TRUE], Op("pause-scraping", 0, 0))

\* ipcMain.on('resume-scraping') (lines 68-72)
ResumeScraping ==
    Commit(IF isScraping /\ isPaused THEN [World EXCEPT !.isPaused = FALSE] ELSE World,
           Op("resume-scraping", 0, 0))

\* the run a stop request is for: the latest one, while it is active
StopTarget(w) ==
    IF Len(w.ctl) > 0 /\ (w.isScraping \/ Live(w.ctl[Len(w.ctl)]))
    THEN Len(w.ctl) ELSE 0

\* ipcMain.on('stop-scraping') (lines 74-88); the delay it cancels is
\* resolved in the handler and its controller continues right after it
StopHandler(w) ==
    LET t  == StopTarget(w)
        w1 == [w EXCEPT !.isScraping = FALSE, !.isPaused = FALSE,
                        !.wasStopped = TRUE, !.delayCancel = NoCtl]
        w2 == IF t = 0 THEN w1
              ELSE [w1 EXCEPT !.ctl[t].stopInvoked = TRUE]
        w3 == Emit(w2, "scraping-stopped", t, 0)
    IN  IF w.delayCancel # NoCtl THEN AfterDelay(w3, w.delayCancel) ELSE w3

StopScraping == Commit(StopHandler(World), Op("stop-scraping", 0, 0))

\* the once listeners of waitForCookiesUpdate (lines 704-710), in the order
\* of their registration, and then the controllers they resolved
RECURSIVE ResumeWaiters(_, _)
ResumeWaiters(w, waiters) ==
    IF waiters = <<>> THEN w
    ELSE ResumeWaiters(AfterCookies(w, Head(waiters)), Tail(waiters))

\* ipcMain.emit('update-cookies'): the listener of lines 90-95 runs first;
\* when extractHeadersFromCookies throws in it, emit is left by the
\* exception and the once listeners stay registered, uncalled
UpdateHandler(w, b) ==
    IF ~w.scrapeData.set THEN w
    ELSE LET w1 == [w EXCEPT !.scrapeData.cookies = b]
         IN  IF HeadersThrow(b) THEN w1
             ELSE ResumeWaiters([w1 EXCEPT !.scrapeData.headers =
                                                extractHeadersFromCookies(b),
                                           !.cookieWaiters = <<>>],
                                w.cookieWaiters)

UpdateCookies(b) == Commit(UpdateHandler(World, b), Op("update-cookies", 0, IF HeadersThrow(b) THEN 0 ELSE 1))

(***************************************************************************)
(* Callbacks of the controllers.                                           *)
(***************************************************************************)
InFlight(c) == ctl[c].pc \in {"req1", "req2"}

\* the request of controller c is answered with k results (step 2: k
\* contacts)
ResponseOk(c, k) ==
    /\ InFlight(c)
    /\ Commit(IF ctl[c].pc = "req1" THEN PageSuccess(World, c, k)
              ELSE DetailSuccess(World, c, k),
              Op("response", c, k))

\* the request of controller c fails with status 401 or 403
ResponseAuth(c) ==
    /\ InFlight(c)
    /\ Commit(IF ctl[c].pc = "req1" THEN PageAuthError(World, c)
              ELSE DetailAuthError(World, c),
              Op("response-auth", c, 0))

\* the request of controller c fails in any other way
ResponseError(c) ==
    /\ InFlight(c)
    /\ Commit(IF ctl[c].pc = "req1" THEN PageOtherError(World, c)
              ELSE DetailOtherError(World, c),
              Op("response-error", c, 0))

\* the setTimeout callback of cancellableDelay (lines 456-459): it clears
\* delayCancel whichever delay that belongs to
DelayExpired(c) ==
    /\ ctl[c].pc \in {"delay1", "delay2"}
    /\ Commit(AfterDelay([World EXCEPT !.delayCancel = NoCtl], c),
              Op("delay-expired", c, 0))

\* the setInterval callback of a pause-wait that finds isPaused false
PauseTick(c) ==
    /\ ctl[c].pc \in {"pause1", "pause2"}
    /\ ~isPaused
    /\ Commit(AfterPause(World, c), Op("pause-tick", c, 0))

\* the module state before the first IPC message
Idle ==
    /\ isScraping = FALSE
    /\ isPaused = FALSE
    /\ wasStopped = FALSE
    /\ scrapeData = NoData
    /\ delayCancel = NoCtl
    /\ cookieWaiters = <<>>
    /\ ctl = <<>>
    /\ lastOp = Op("init", 0, 0)
    /\ notes = <<>>
    /\ sent = <<>>
    /\ written = <<>>

\* no function is examined on its own
NoCall == [fn |-> "none"]

Init == Idle /\ call = NoCall

\* the run state untouched by a function without side effects on it
IdleStep ==
    UNCHANGED <<isScraping, isPaused, wasStopped, scrapeData, delayCancel,
                cookieWaiters, ctl, lastOp, notes, sent, written>>

Next ==
    \/ \E data \in StartData : StartScraping(data)
    \/ PauseScraping
    \/ ResumeScraping
    \/ StopScraping
    \/ \E b \in UpdateBundles : UpdateCookies(b)
    \/ \E c \in Runs, k \in 0 .. MaxPage : ResponseOk(c, k)
    \/ \E c \in Runs : ResponseAuth(c)
    \/ \E c \in Runs : ResponseError(c)
    \/ \E c \in Runs : DelayExpired(c)
    \/ \E c \in Runs : PauseTick(c)

Spec == Init /\ [][Next]_vars


(***************************************************************************)
(* Properties.                                                             *)
(***************************************************************************)
Note(type, run) == [type |-> type, run |-> run, val |-> 0]

Notified(ns, type, run) == \E i \in DOMAIN ns : ns[i].type = type /\ ns[i].run = run

Requested(ms, c) == \E i \in DOMAIN ms : ms[i].c = c

LiveRuns == {c \in Runs : Live(ctl[c])}

\* C1: a start request received while isScraping is set sends one error
\* notification, starts no controller, issues no request and leaves the
\* flags, the stored run config, the delay handle, the cookie listeners and
\* the locals of every controller (page cursor, collected count) as they were.
C1_StartRejected ==
    [][(lastOp'.op = "start-scraping" /\ isScraping)
         => /\ notes' = <<Note("error", 0)>>
            /\ sent' = <<>>
            /\ written' = <<>>
            /\ UNCHANGED <<isScraping, isPaused, wasStopped, scrapeData,
                           delayCancel, cookieWaiters, ctl>>]_vars

\* a start request was rejected while a paused run had collected a row
C1_Witness ==
    /\ lastOp.op = "start-scraping"
    /\ notes = <<Note("error", 0)>>
    /\ isScraping /\ isPaused
    /\ \E c \in Runs : ctl[c].pc = "pause1" /\ ctl[c].page = 2
                       /\ ctl[c].resultsCollected = 1

\* C2: at most one controller is live (started and not yet returned) in
\* every reachable state.
C2_OneLiveController == Cardinality(LiveRuns) <= 1

\* C3: once the controller of an accepted run has exited, exactly one of
\* finished, stopped, error has been emitted for the run.
C3_ExactlyOneOutcome ==
    \A c \in Runs :
        ctl[c].pc = "done" =>
            Cardinality({x \in {"finished", "stopped", "error"} :
                            \/ x = "finished" /\ ctl[c].finished
                            \/ x = "stopped" /\ ctl[c].stopInvoked
                            \/ x = "error" /\ ctl[c].errored}) = 1

\* C4: the rows written to the sink of a run never exceed its target count.
C4_RowsWithinTarget ==
    \A c \in Runs : ctl[c].rows <= ctl[c].totalResults

\* both controllers received a response with more records than remained:
\* a finished single-phase run with target 1, and a detail response with
\* two contacts for a two-phase run with target 1
C4_Witness ==
    /\ Len(ctl) = 2
    /\ ctl[1].apiType = "Company Search" /\ ctl[1].finished
    /\ ctl[1].totalResults = 1 /\ ctl[1].rows = 1
    /\ ctl[2].apiType = "Contact Search"
    /\ ctl[2].totalResults = 1 /\ ctl[2].rows = 1
    /\ lastOp = Op("response", 2, 2)
    /\ Notified(notes, "progress-update", 2)

\* the denominator of the progress of a run
ProgressDen(r) == IF TwoPhase(r) THEN TotalApiCalls(r.totalResults) ELSE r.totalResults

\* C5: the progress values of one run never decrease and never exceed 100
\* (values are percentages times the denominator of the run).
C5_ProgressMonotone ==
    [][\A i \in DOMAIN notes' :
          notes'[i].type = "progress-update" =>
              LET c == notes'[i].run
                  before == {j \in 1 .. i - 1 : notes'[j].type = "progress-update"
                                                 /\ notes'[j].run = c}
              IN  /\ notes'[i].val <= 100 * ProgressDen(ctl'[c])
                  /\ \A j \in before : notes'[j].val <= notes'[i].val
                  /\ before = {} => ctl[c].lastProgress <= notes'[i].val]_vars

\* step 1 of a two-phase run took more page fetches than ceil(target/25),
\* so that the run has completed all the calls of its estimate and reported
\* 100 while a detail request is still to come
C5_Witness ==
    \E c \in Runs :
        /\ TwoPhase(ctl[c])
        /\ ctl[c].pc = "delay2"
        /\ ctl[c].page - 1 > CeilDiv(ctl[c].totalResults, PersonSearchPageSize)
        /\ ctl[c].apiCallsCompleted = TotalApiCalls(ctl[c].totalResults)
        /\ ctl[c].resultsCollected < ctl[c].totalResults
        /\ \E i \in DOMAIN notes :
              /\ notes[i].type = "progress-update" /\ notes[i].run = c
              /\ notes[i].val = 100 * TotalApiCalls(ctl[c].totalResults)


Waiting(c) == \E i \in DOMAIN cookieWaiters : cookieWaiters[i] = c

ValidUpdate(op) == op.op = "update-cookies" /\ op.arg = 1

\* C6: when the page request of a controller fails with 401/403 the
\* controller sends request-new-cookies and waits with its page counter at
\* the page of the failed request; while it waits it issues no request and
\* only update-cookies with a valid bundle releases it; from the failure to
\* its next request it starts no delay, and that request is for the page of
\* the failed one.
C6_RetrySamePage ==
    [][\A c \in Runs :
          LET r == ctl[c]
              q == ctl'[c]
          IN  /\ (r.pc = "req1" /\ lastOp' = Op("response-auth", c, 0))
                    => /\ q.pc = "cred1"
                       /\ q.page = r.req
                       /\ Notified(notes', "request-new-cookies", c)
                       /\ ~Requested(sent', c)
              /\ (r.pc = "cred1" /\ ~ValidUpdate(lastOp'))
                    => /\ q.pc = "cred1"
                       /\ q.page = r.page
                       /\ ~Requested(sent', c)
              /\ (r.authRetry /\ r.pc \in {"cred1", "pause1"})
                    => /\ q.pc \in {"cred1", "pause1", "req1", "req2", "done"}
                       /\ q.pc \in {"cred1", "pause1"} => q.page = r.req
                       /\ q.pc = "req1"
                             => /\ Requested(sent', c)
                                /\ \A i \in DOMAIN sent' :
                                      sent'[i].c = c
                                          => /\ sent'[i].kind = "page"
                                             /\ sent'[i].arg = r.req]_vars

\* update-cookies with a valid bundle released a pagination controller that
\* waited after a 401 on page 2, and the controller requested page 2
C6_Witness ==
    /\ ValidUpdate(lastOp)
    /\ \E c \in Runs :
          /\ ctl[c].apiType = "Company Search"
          /\ ctl[c].pc = "req1" /\ ctl[c].req = 2 /\ ctl[c].page = 2
          /\ \E i \in DOMAIN sent : sent[i].c = c /\ sent[i].arg = 2

\* C7: every request of the current run carries the header set derived from
\* the bundle supplied last (at start, or by update-cookies since).
C7_RequestsCarryNewHeaders ==
    \A i \in DOMAIN sent :
        sent[i].c = Len(ctl) => sent[i].headers = scrapeData.headers

\* C8: update-cookies with a bundle that fails header materialization
\* aborts every controller that waits for new cookies: the error
\* notification is sent, the controller has exited and issues no request.
C8_BadBundleAborts ==
    [][\A c \in Runs :
          (Waiting(c) /\ lastOp'.op = "update-cookies" /\ lastOp'.arg = 0)
              => /\ ctl'[c].pc = "done"
                 /\ Notified(notes', "error", c)
                 /\ ~Requested(sent', c)]_vars

\* C9: stop-scraping received while the controller of the current run is in
\* an inter-request delay wakes it through delayCancel: the controller has
\* exited when the handler is done, and no request was issued.
C9_StopCancelsDelay ==
    [][(lastOp'.op = "stop-scraping" /\ Len(ctl) > 0
          /\ ctl[Len(ctl)].pc \in {"delay1", "delay2"})
         => /\ ctl'[Len(ctl)].pc = "done"
            /\ sent' = <<>>]_vars

\* C10: a run for which stop-scraping was received never sends
\* scraping-finished.
C10_NoFinishedAfterStop ==
    [][\A c \in Runs :
          ctl[c].stopInvoked => ~Notified(notes', "scraping-finished", c)]_vars

(***************************************************************************)
(* Scheduling.  The event loop runs every callback that is due: a request  *)
(* is answered or fails, the timer of a delay fires, and the interval of a *)
(* pause-wait fires while isPaused is false.  Nothing obliges the window   *)
(* to send an IPC message.                                                 *)
(***************************************************************************)
Response(c) ==
    /\ c \in Runs
    /\ \/ \E k \in 0 .. MaxPage : ResponseOk(c, k)
       \/ ResponseAuth(c)
       \/ ResponseError(c)

Timer(c) ==
    /\ c \in Runs
    /\ DelayExpired(c) \/ PauseTick(c)

Fairness == \A c \in 1 .. MaxRuns : WF_vars(Response(c)) /\ WF_vars(Timer(c))

FairSpec == Spec /\ Fairness

WaitsForCookies(r) == r.pc \in {"cred1", "cred2"}

\* C11: when stop-scraping is received for a run whose controller waits for
\* new cookies after a 401/403, the controller eventually returns and the
\* sink of the run is closed, also when no valid update-cookies arrives.
C11_StopEndsCookieWait ==
    \A c \in 1 .. MaxRuns :
        [](( /\ lastOp.op = "stop-scraping"
             /\ c \in Runs /\ WaitsForCookies(ctl[c]) /\ ctl[c].stopInvoked )
              => <>( \/ c \in Runs /\ ctl[c].pc = "done" /\ ctl[c].sink = "closed"
                     \/ ValidUpdate(lastOp) ))

\* C12: once a request of a run failed with an error other than 401/403
\* the run issues no request any more, neither in the callback of the
\* failure nor later; a failed page request of a two-phase run is followed
\* by no detail request.
C12_NoRequestAfterFailure ==
    [][\A c \in Runs :
          (lastOp' = Op("response-error", c, 0) \/ ctl[c].errored)
              => ~Requested(sent', c)]_vars

\* the run of the last callback met a fatal error in it: startScraping
\* caught an exception, or a request failed with an error other than 401/403
FatalError(c) ==
    \/ /\ lastOp'.op = "start-scraping"
       /\ Len(ctl') > Len(ctl) /\ c = Len(ctl')
       /\ ctl'[c].errored
    \/ lastOp' = Op("response-error", c, 0)

\* C13: when a run met a fatal error its sink, if it was opened, is closed,
\* its controller has returned and isScraping is false, so that the next
\* start-scraping is accepted.
C13_FatalErrorEndsRun ==
    [][\A c \in 1 .. Len(ctl') :
          FatalError(c) => /\ ctl'[c].sink # "open"
                           /\ ~Live(ctl'[c])
                           /\ ~isScraping']_vars

(***************************************************************************)
(* One Contact Search run against a server with enough persons: every      *)
(* search page holds PersonSearchPageSize persons, each with a personID,   *)
(* every viewContacts response holds one contact, no request fails and     *)
(* stop-scraping is not sent.  The window may pause and resume.            *)
(***************************************************************************)
ContactData == [apiType : {"Contact Search"}, cookies : {Bundle("a")},
                totalResults : 1 .. MaxContacts, startIdx : {DefaultStartIndex}]

StartContacts ==
    /\ ctl = <<>>
    /\ \E data \in ContactData :
          Commit(StartHandler(World, data), Op("start-scraping", 0, 0))

FullPage(c) ==
    /\ ctl[c].pc = "req1"
    /\ ResponseOk(c, PersonSearchPageSize)

OneContact(c) ==
    /\ ctl[c].pc = "req2"
    /\ ResponseOk(c, 1)

ContactNext ==
    \/ StartContacts
    \/ PauseScraping
    \/ ResumeScraping
    \/ \E c \in Runs : FullPage(c)
    \/ \E c \in Runs : OneContact(c)
    \/ \E c \in Runs : DelayExpired(c)
    \/ \E c \in Runs : PauseTick(c)

ContactSpec == Init /\ [][ContactNext]_vars

\* the identifiers of the first n persons of the server, in page order
ServerIds(n) ==
    [k \in 1 .. n |-> PersonId(((k - 1) \div PersonSearchPageSize) + 1,
                               ((k - 1) % PersonSearchPageSize) + 1)]

\* C14: in a Contact Search run with target T against full search pages
\* and one-contact detail responses, page p is requested when 25 * (p - 1)
\* identifiers are collected and p <= ceil(T / 25); the k-th detail request
\* is issued after k - 1 rows, for the k-th of the T collected identifiers,
\* after ceil(T / 25) pages; every row written carries the linkedin profile
\* the search result of its identifier held; the run finishes with T rows
\* after ceil(T / 25) + T answered requests.
C14_TwoPhaseFetches ==
    [][\A c \in 1 .. Len(ctl') :
          LET q == ctl'[c]
              T == q.totalResults
              pages == CeilDiv(T, PersonSearchPageSize)
          IN  /\ \A i \in DOMAIN sent' :
                    /\ sent'[i].kind = "page"
                          => /\ sent'[i].arg <= pages
                             /\ Len(q.personIds)
                                   = PersonSearchPageSize * (sent'[i].arg - 1)
                    /\ sent'[i].kind = "detail"
                          => /\ q.page - 1 = pages
                             /\ q.personIds = ServerIds(T)
                             /\ sent'[i].arg = q.personIds[q.rows + 1]
              /\ Len(sent') <= 1
              /\ \A i \in DOMAIN written' :
                    /\ written'[i].id = ctl[c].req
                    /\ written'[i].LinkedIn = SocialUrlsParsed(ctl[c].req).linkedin
              /\ q.finished => /\ q.rows = T
                               /\ written' # <<>>
                                     => ctl[c].apiCallsCompleted + 1 = pages + T]_vars

\* a run with a target of one more than a page has finished: its last row
\* is that of the first person of page 2, with the linkedin profile of the
\* search result
C14_Witness ==
    /\ Len(ctl) = 1
    /\ ctl[1].totalResults = PersonSearchPageSize + 1
    /\ ctl[1].finished
    /\ ctl[1].rows = PersonSearchPageSize + 1
    /\ written = <<[c |-> 1, id |-> PersonId(2, 1), LinkedIn |-> PersonId(2, 1)]>>

\* C15: pause-scraping received while no run is active (isScraping false)
\* leaves isPaused false and changes no other run state, and
\* resume-scraping received while isPaused is false changes nothing.
C15_IdlePauseNoOp ==
    [][/\ (lastOp'.op = "pause-scraping" /\ ~isScraping)
            => /\ isPaused' = FALSE
               /\ UNCHANGED <<isScraping, wasStopped, scrapeData, delayCancel,
                              cookieWaiters, ctl>>
       /\ (lastOp'.op = "resume-scraping" /\ ~isPaused)
            => UNCHANGED <<isScraping, isPaused, wasStopped, scrapeData,
                           delayCancel, cookieWaiters, ctl>>]_vars

(***************************************************************************)
(* The request payload (lines 191-193, 291-292, 690-700).  A JSON text is  *)
(* a tree: Prim(v) for a number, string, boolean or null, Obj(f) for an    *)
(* object with the fields f in order (an array is an object whose keys are *)
(* its indices, which is how for-in sees it).  A key is a sequence of      *)
(* characters.  The heap is the sequence of the objects allocated so far;  *)
(* an object is the sequence of its fields and a field value is a          *)
(* primitive or the address of an object.                                  *)
(***************************************************************************)
Prim(v) == [t |-> "prim", v |-> v]

Obj(f) == [t |-> "obj", f |-> f]

Ref(a) == [t |-> "ref", a |-> a]

\* JSON.parse: every object of the text is a new object of the heap
RECURSIVE JSONparse(_, _)
RECURSIVE ParseFields(_, _, _)
JSONparse(h, text) ==
    IF text.t = "prim" THEN [heap |-> h, val |-> text]
    ELSE [heap |-> ParseFields(Append(h, <<>>), Len(h) + 1, text.f),
          val |-> Ref(Len(h) + 1)]

ParseFields(h, a, fs) ==
    IF fs = <<>> THEN h
    ELSE LET r == JSONparse(h, Head(fs).val)
         IN  ParseFields([r.heap EXCEPT ![a] =
                             Append(@, [key |-> Head(fs).key, val |-> r.val])],
                         a, Tail(fs))

\* JSON.stringify: the text of a value of the heap
RECURSIVE JSONstringify(_, _)
JSONstringify(h, v) ==
    IF v.t = "prim" THEN v
    ELSE Obj([i \in 1 .. Len(h[v.a]) |->
                 [key |-> h[v.a][i].key,
                  val |-> JSONstringify(h, h[v.a][i].val)]])

\* updatedPayload = payload
Alias(h, payload) == [heap |-> h, val |-> payload]

\* JSON.parse(JSON.stringify(payload))
DeepCopy(h, payload) == JSONparse(h, JSONstringify(h, payload))

LowerChar(ch) == CASE ch = "P" -> "p"
                   [] ch = "A" -> "a"
                   [] ch = "G" -> "g"
                   [] ch = "E" -> "e"
                   [] OTHER -> ch

toLowerCase(key) == [i \in 1 .. Len(key) |-> LowerChar(key[i])]

\* setPageInPayload (lines 690-700): the objects of the heap are changed in
\* place; typeof is 'object' for an object, an array and null, and for-in
\* has no key to visit in null
RECURSIVE setPageInPayload(_, _, _)
RECURSIVE SetPageFrom(_, _, _, _)
setPageInPayload(h, payload, page) ==
    IF payload.t = "ref" THEN SetPageFrom(h, payload.a, 1, page) ELSE h

\* the iterations of the for-in loop from the i-th key on
SetPageFrom(h, a, i, page) ==
    IF i > Len(h[a]) THEN h
    ELSE IF toLowerCase(h[a][i].key) = <<"p", "a", "g", "e">>
    THEN SetPageFrom([h EXCEPT ![a][i].val = Prim(page)], a, i + 1, page)
    ELSE SetPageFrom(setPageInPayload(h, h[a][i].val, page), a, i + 1, page)

\* the keys of the templates: page in two spellings and a longer name
PayloadKeys == { <<"p", "a", "g", "e">>, <<"P", "a", "G", "e">>,
                 <<"p", "a", "g", "e", "s">> }

\* the field lists with at most n fields, those of nested objects included;
\* the keys of one object differ
RECURSIVE PayloadFields(_)
PayloadFields(n) ==
    {<<>>} \cup
    UNION { { <<[key |-> k, val |-> v]>> \o rest :
                 v \in {Prim(7)} \cup {Obj(f) : f \in PayloadFields(a)},
                 rest \in {r \in PayloadFields(n - 1 - a) :
                              \A i \in DOMAIN r : r[i].key # k} } :
            k \in PayloadKeys, a \in 0 .. n - 1 }

\* the payloads the window sends: JSON.parse of the text the user pasted
Templates == {Prim(7)} \cup {Obj(f) : f \in PayloadFields(MaxFields)}

\* scrapeData.payload holds the template; page is the counter of the loop
\* and updatedPayload the payload of the request built last, for page sent
PayloadInit ==
    /\ Idle
    /\ call \in { [fn |-> "setPageInPayload", text |-> t,
                   heap |-> JSONparse(<<>>, t).heap,
                   payload |-> JSONparse(<<>>, t).val,
                   page |-> 1, updatedPayload |-> Prim("undefined"),
                   sent |-> NoReq] :
                  t \in Templates }

\* one cycle of the loop: the payload of the request (lines 191-193) and,
\* after the response, page += 1 (line 229)
BuildPayload ==
    /\ call.fn = "setPageInPayload"
    /\ call.page <= MaxCycles
    /\ LET copy == DeepCopy(call.heap, call.payload)
       IN  call' = [call EXCEPT
                      !.heap = setPageInPayload(copy.heap, copy.val, call.page),
                      !.updatedPayload = copy.val,
                      !.sent = call.page,
                      !.page = @ + 1]
    /\ IdleStep

PayloadSpec == PayloadInit /\ [][BuildPayload]_vars

\* a name that equals "page" when case is ignored
IsPageName(key) ==
    /\ Len(key) = 4
    /\ key[1] \in {"p", "P"} /\ key[2] \in {"a", "A"}
    /\ key[3] \in {"g", "G"} /\ key[4] \in {"e", "E"}

\* the text in which every field named page holds the number n and every
\* other field its value in text
RECURSIVE WithPage(_, _)
WithPage(text, n) ==
    IF text.t = "prim" THEN text
    ELSE Obj([i \in DOMAIN text.f |->
                 [key |-> text.f[i].key,
                  val |-> IF IsPageName(text.f[i].key) THEN Prim(n)
                          ELSE WithPage(text.f[i].val, n)]])

\* C16: the payload of every request is the template with every field
\* whose name is "page" in any spelling, at any depth, set to the page of
\* the request and every other field as in the template, and the template
\* stored in scrapeData.payload is as the window sent it after every cycle.
C16_PayloadIsPagedCopy ==
    (call.fn = "setPageInPayload" /\ call.sent # NoReq)
        => /\ JSONstringify(call.heap, call.updatedPayload)
                 = WithPage(call.text, call.sent)
           /\ JSONstringify(call.heap, call.payload) = call.text

\* the second payload was built from a template with a field Page in a
\* nested object, next to a field pages, and a field page that holds an object
C16_Witness ==
    /\ call.fn = "setPageInPayload"
    /\ call.sent = 2
    /\ call.text = Obj(<< [key |-> <<"p", "a", "g", "e", "s">>,
                           val |-> Obj(<< [key |-> <<"P", "a", "G", "e">>,
                                           val |-> Prim(7)] >>)],
                          [key |-> <<"p", "a", "g", "e">>, val |-> Obj(<<>>)] >>)
    /\ JSONstringify(call.heap, call.updatedPayload)
          = Obj(<< [key |-> <<"p", "a", "g", "e", "s">>,
                    val |-> Obj(<< [key |-> <<"P", "a", "G", "e">>,
                                    val |-> Prim(2)] >>)],
                   [key |-> <<"p", "a", "g", "e">>, val |-> Prim(2)] >>)

(***************************************************************************)
(* extractHeadersFromCookies on its own (lines 468-519).                   *)
(***************************************************************************)
\* the cookies of the bundles: every required name with a usable value and
\* with values that are empty, empty between quotes, or not decodable
BundleCookies ==
    [name : {"userId", "ziaccesstoken"}, value : {<<"a">>, <<>>}]
    \cup [name : {"ziid"},
          value : { <<"%", "2", "2", "a", "%", "2", "2">>, <<"a">>,
                    <<"%", "2", "2", "%", "2", "2">>, <<"%">> }]
    \cup [name : {"zisession"},
          value : { <<"a">>, <<Quote, Quote>>, <<"%", "a", "b">> }]

\* the bundles of up to n cookies, in any order, names repeated or absent
RECURSIVE Bundles(_)
Bundles(n) ==
    IF n = 0 THEN {<<>>}
    ELSE Bundles(n - 1)
         \cup {Append(b, k) : b \in {x \in Bundles(n - 1) : Len(x) = n - 1},
                              k \in BundleCookies}

HeadersInit ==
    /\ Idle
    /\ call \in { [fn |-> "extractHeadersFromCookies", cookies |-> b,
                   returned |-> FALSE, threw |-> FALSE, headers |-> NoHeaders] :
                  b \in Bundles(MaxCookies) }

\* one call of extractHeadersFromCookies
ExtractHeaders ==
    /\ call.fn = "extractHeadersFromCookies"
    /\ ~call.returned /\ ~call.threw
    /\ call' = IF HeadersThrow(call.cookies)
               THEN [call EXCEPT !.threw = TRUE]
               ELSE [call EXCEPT !.returned = TRUE,
                        !.headers = extractHeadersFromCookies(call.cookies)]
    /\ IdleStep

HeadersSpec == HeadersInit /\ [][ExtractHeaders]_vars

RequiredCookies == {"userId", "ziaccesstoken", "ziid", "zisession"}

\* the bundle holds no cookie of that name
Missing(cookies, name) == \A i \in DOMAIN cookies : cookies[i].name # name

\* decodeURIComponent throws for ziid or zisession
DecodeStepThrows(cookies) ==
    \E name \in {"ziid", "zisession"} : DecodeThrows(CookieDict(cookies, name))

\* the value of the last cookie of that name, decoded and without its
\* quotes for ziid and zisession; empty when the bundle has none
Token(cookies, name) ==
    LET at == {i \in DOMAIN cookies : cookies[i].name = name}
        last == CHOOSE i \in at : \A j \in at : j <= i
        raw == IF at = {} THEN <<>> ELSE cookies[last].value
    IN  IF name \in {"ziid", "zisession"}
        THEN StripQuotes(decodeURIComponent(raw)) ELSE raw

\* name=value of the cookies from the i-th on, "; " between two of them
RECURSIVE Pairs(_, _)
Pairs(cookies, i) ==
    IF i > Len(cookies) THEN <<>>
    ELSE (IF i > 1 THEN <<"; ">> ELSE <<>>)
         \o <<cookies[i].name, "=">> \o cookies[i].value \o Pairs(cookies, i + 1)

CallDone == call.fn = "extractHeadersFromCookies" /\ (call.returned \/ call.threw)

\* C17 as stated: the call throws exactly when the bundle has no cookie of
\* one of the four required names or a decode step throws, and the Cookie
\* header of a returned header set is the name=value pairs of the bundle in
\* their order, joined by "; ".
C17_ThrowsIffMissing ==
    CallDone
        => /\ call.threw <=> \/ \E name \in RequiredCookies :
                                    Missing(call.cookies, name)
                             \/ DecodeStepThrows(call.cookies)
           /\ call.returned => call.headers.Cookie = Pairs(call.cookies, 1)

\* C17, amended: the call throws exactly when a decode step throws or one
\* of the four tokens is empty, where the token of a name is the value of
\* the last cookie of that name (nothing when there is none), for ziid and
\* zisession decoded and without its enclosing quotes; the Cookie header
\* of a returned header set is the name=value pairs of the bundle in their
\* order, joined by "; ".
C17_ThrowsIffNoToken ==
    CallDone
        => /\ call.threw <=> \/ DecodeStepThrows(call.cookies)
                             \/ \E name \in RequiredCookies :
                                    Token(call.cookies, name) = <<>>
           /\ call.returned
                 => /\ call.headers.Cookie = Pairs(call.cookies, 1)
                    /\ call.headers.xzisession = Token(call.cookies, "zisession")

\* a bundle that names its cookies in another order than the header set
\* names its tokens was accepted
C17_Witness ==
    /\ call.fn = "extractHeadersFromCookies" /\ call.returned
    /\ call.cookies = << [name |-> "zisession", value |-> <<"a">>],
                         [name |-> "ziid",
                          value |-> <<"%", "2", "2", "a", "%", "2", "2">>],
                         [name |-> "userId", value |-> <<"a">>],
                         [name |-> "ziaccesstoken", value |-> <<"a">>] >>
    /\ call.headers.xziid = <<"a">>
    /\ call.headers.Cookie
          = << "zisession", "=", "a", "; ",
               "ziid", "=", "%", "2", "2", "a", "%", "2", "2", "; ",
               "userId", "=", "a", "; ", "ziaccesstoken", "=", "a" >>

(***************************************************************************)
(* transformResultToCsvRow on its own (lines 548-688).  A value of a raw   *)
(* record is a string Prim(s), an object Rec(f) with f from its keys to    *)
(* its values (an array of objects is an object with the keys "0", "1"),   *)
(* a list of numeric codes Codes(s), or undefined.  A cell of the row is a *)
(* string Prim(s) or the text Text(p) of the pieces p of a join.           *)
(***************************************************************************)
Rec(f) == [t |-> "rec", v |-> f]

Codes(s) == [t |-> "codes", v |-> s]

Undefined == [t |-> "undefined", v |-> ""]

TypeError == [t |-> "TypeError", v |-> ""]

EmptyRec == Rec(<<>>)

\* v[k]: reading a property of undefined throws, a property that is not
\* there is undefined
Get(v, k) ==
    IF v.t \in {"undefined", "TypeError"} THEN TypeError
    ELSE IF v.t = "rec" /\ k \in DOMAIN v.v THEN v.v[k]
    ELSE Undefined

Falsy(v) == v.t = "undefined" \/ (v.t = "prim" /\ v.v = "")

\* v || d
Or(v, d) == IF Falsy(v) THEN d ELSE v

\* result.a.b || '' without the `|| {}` of the objects on the way
RECURSIVE FieldUnguarded(_, _)
FieldUnguarded(v, path) ==
    IF Len(path) = 1 THEN Or(Get(v, path[1]), Prim(""))
    ELSE FieldUnguarded(Get(v, path[1]), Tail(path))

\* (result.a || {}).b || '': every object on the way to the field is
\* replaced by {} when it is falsy (employmentHistory by [{}], line 576,
\* whose element 0 is {})
RECURSIVE Field(_, _)
Field(v, path) ==
    IF Len(path) = 1 THEN Or(Get(v, path[1]), Prim(""))
    ELSE Field(Or(Get(v, path[1]), EmptyRec), Tail(path))

\* scoopTypeMapping and scoopTopicMapping (lines 649-665)
scoopTypeMapping ==
    [code \in {"11", "21", "20", "4", "9"} |->
        CASE code = "11" -> "Open Position"
          [] code = "21" -> "Project"
          [] code = "20" -> "Painpoint"
          [] code = "4" -> "Mergers & Acquisitions"
          [] code = "9" -> "Product Launch"]

scoopTopicMapping ==
    [code \in {"50", "115", "226", "61", "41", "105", "116", "54"} |->
        CASE code = "50" -> "Application Development"
          [] code = "115" -> "Enterprise Architecture"
          [] code = "226" -> "Artificial Intelligence"
          [] code = "61" -> "Product Development"
          [] code = "41" -> "Spending/Investment"
          [] code = "105" -> "Contingent Workforce"
          [] code = "116" -> "Financial Planning"
          [] code = "54" -> "Request for Proposal"]

\* code.toString() of a code the server sends as a number
toString(code) == ToString(code)

\* the name of a code without the `|| 'Unknown'`: undefined joins as ''
LookupUndefined(mapping, code) ==
    IF toString(code) \in DOMAIN mapping THEN mapping[toString(code)] ELSE ""

\* mapping[code.toString()] || 'Unknown' (lines 667, 670)
Lookup(mapping, code) ==
    IF toString(code) \in DOMAIN mapping THEN mapping[toString(code)] ELSE "Unknown"

\* names.join(sep): the text as the sequence of its pieces
RECURSIVE join(_, _)
join(names, sep) ==
    IF names = <<>> THEN <<>>
    ELSE IF Len(names) = 1 THEN names
    ELSE <<Head(names), sep>> \o join(Tail(names), sep)

Text(pieces) == [t |-> "text", v |-> pieces]

\* (result.scoopTypes?.scoopType || []).map(code => mapping[code] ||
\* 'Unknown').join(', ') || '' (lines 645-647, 666-671, 681-682): the cell
\* is the joined text of the names, '' for no name
ScoopNames(result, path, mapping) ==
    LET outer == Get(result, path[1])
        list  == Or(IF outer.t = "undefined" THEN Undefined
                    ELSE Get(outer, path[2]),
                    Codes(<<>>))
        names == [i \in DOMAIN list.v |-> Lookup(mapping, list.v[i])]
    IN  IF list.t # "codes" THEN TypeError   \* no method map
        ELSE IF join(names, ", ") = <<>> THEN Prim("")
        ELSE Text(join(names, ", "))

\* the row literal of case 'Company Search' (lines 555-570)
CompanyColumns ==
    { [col |-> "Company ID", src |-> <<"companyID">>, map |-> "none"],
      [col |-> "Company Name", src |-> <<"companyName">>, map |-> "none"],
      [col |-> "Company Domain", src |-> <<"companyDomain">>, map |-> "none"],
      [col |-> "Company Type", src |-> <<"companyType">>, map |-> "none"],
      [col |-> "Company Phone", src |-> <<"companyPhone">>, map |-> "none"],
      [col |-> "Revenue", src |-> <<"revenue">>, map |-> "none"],
      [col |-> "Employees", src |-> <<"employees">>, map |-> "none"],
      [col |-> "Top Level Industry 0", src |-> <<"topLevelIndustry", "0">>, map |-> "none"],
      [col |-> "Top Level Industry 1", src |-> <<"topLevelIndustry", "1">>, map |-> "none"],
      [col |-> "Website", src |-> <<"website">>, map |-> "none"],
      [col |-> "Company Description", src |-> <<"companyDescription">>, map |-> "none"],
      [col |-> "City", src |-> <<"location", "City">>, map |-> "none"],
      [col |-> "Country Code", src |-> <<"location", "CountryCode">>, map |-> "none"],
      [col |-> "State", src |-> <<"location", "State">>, map |-> "none"],
      [col |-> "Street", src |-> <<"location", "Street">>, map |-> "none"],
      [col |-> "Zip", src |-> <<"location", "Zip">>, map |-> "none"] }

\* the row literal of case 'Person Search' (lines 579-597)
PersonColumns ==
    { [col |-> "First Name", src |-> <<"firstName">>, map |-> "none"],
      [col |-> "Last Name", src |-> <<"lastName">>, map |-> "none"],
      [col |-> "Job Title", src |-> <<"jobTitle">>, map |-> "none"],
      [col |-> "LinkedIn", src |-> <<"socialUrlsParsed", "linkedin">>, map |-> "none"],
      [col |-> "Facebook", src |-> <<"socialUrlsParsed", "facebook">>, map |-> "none"],
      [col |-> "Twitter", src |-> <<"socialUrlsParsed", "twitter">>, map |-> "none"],
      [col |-> "Instagram", src |-> <<"socialUrlsParsed", "instagram">>, map |-> "none"],
      [col |-> "Metro Area", src |-> <<"location", "metroArea">>, map |-> "none"],
      [col |-> "City", src |-> <<"location", "City">>, map |-> "none"],
      [col |-> "State", src |-> <<"location", "State">>, map |-> "none"],
      [col |-> "Street", src |-> <<"location", "Street">>, map |-> "none"],
      [col |-> "Zip", src |-> <<"location", "Zip">>, map |-> "none"],
      [col |-> "Country Code", src |-> <<"location", "CountryCode">>, map |-> "none"],
      [col |-> "Company Domain", src |-> <<"companyDomain">>, map |-> "none"],
      [col |-> "Company Name", src |-> <<"companyName">>, map |-> "none"],
      [col |-> "Company Phone", src |-> <<"companyPhone">>, map |-> "none"],
      [col |-> "Company Revenue", src |-> <<"companyRevenue">>, map |-> "none"],
      [col |-> "Company Website 0", src |-> <<"employmentHistory", "0", "companyWebsite">>, map |-> "none"],
      [col |-> "Company Description", src |-> <<"companyDescription">>, map |-> "none"] }

\* the row literal of case 'Contact Search' (lines 605-640)
ContactColumns ==
    { [col |-> "Person ID", src |-> <<"personID">>, map |-> "none"],
      [col |-> "First Name", src |-> <<"firstName">>, map |-> "none"],
      [col |-> "Middle Initial", src |-> <<"middleInitial">>, map |-> "none"],
      [col |-> "Last Name", src |-> <<"lastName">>, map |-> "none"],
      [col |-> "Company", src |-> <<"title">>, map |-> "none"],
      [col |-> "Job Title", src |-> <<"jobTitle">>, map |-> "none"],
      [col |-> "Person Phone", src |-> <<"phone">>, map |-> "none"],
      [col |-> "Business Email", src |-> <<"personalEmail">>, map |-> "none"],
      [col |-> "Person Email", src |-> <<"email">>, map |-> "none"],
      [col |-> "LinkedIn", src |-> <<"LinkedIn">>, map |-> "none"],
      [col |-> "Facebook", src |-> <<"Facebook">>, map |-> "none"],
      [col |-> "Twitter", src |-> <<"Twitter">>, map |-> "none"],
      [col |-> "Instagram", src |-> <<"Instagram">>, map |-> "none"],
      [col |-> "Person Street", src |-> <<"location", "Street">>, map |-> "none"],
      [col |-> "Person City", src |-> <<"location", "City">>, map |-> "none"],
      [col |-> "Person State", src |-> <<"location", "State">>, map |-> "none"],
      [col |-> "Person Zip", src |-> <<"location", "Zip">>, map |-> "none"],
      [col |-> "Person Country", src |-> <<"location", "CountryCode">>, map |-> "none"],
      [col |-> "Person Metro Area", src |-> <<"location", "metroArea">>, map |-> "none"],
      [col |-> "Company ID", src |-> <<"companyID">>, map |-> "none"],
      [col |-> "Company Name", src |-> <<"companyName">>, map |-> "none"],
      [col |-> "Company Revenue", src |-> <<"companyRevenue">>, map |-> "none"],
      [col |-> "Company Employees", src |-> <<"companyEmployees">>, map |-> "none"],
      [col |-> "Company Domain", src |-> <<"companyDomain">>, map |-> "none"],
      [col |-> "Company Website", src |-> <<"website">>, map |-> "none"],
      [col |-> "Company Description", src |-> <<"companyDescription">>, map |-> "none"],
      [col |-> "Company Phone", src |-> <<"companyPhone">>, map |-> "none"],
      [col |-> "Company Ticker", src |-> <<"companyTicker">>, map |-> "none"],
      [col |-> "Top Level Industry", src |-> <<"topLevelIndustry", "0">>, map |-> "none"],
      [col |-> "Company Type", src |-> <<"companyType">>, map |-> "none"],
      [col |-> "Company Street", src |-> <<"companyAddress", "Street">>, map |-> "none"],
      [col |-> "Company City", src |-> <<"companyAddress", "City">>, map |-> "none"],
      [col |-> "Company State", src |-> <<"companyAddress", "State">>, map |-> "none"],
      [col |-> "Company Zip", src |-> <<"companyAddress", "Zip">>, map |-> "none"],
      [col |-> "Company Country", src |-> <<"companyAddress", "CountryCode">>, map |-> "none"],
      [col |-> "Confidence Score", src |-> <<"confidenceScore">>, map |-> "none"] }

\* the row literal of case 'Scoops Search' (lines 674-682)
ScoopsColumns ==
    { [col |-> "Published Date", src |-> <<"publishedDate">>, map |-> "none"],
      [col |-> "Company ID", src |-> <<"companyRecord", "companyID">>, map |-> "none"],
      [col |-> "Company Name", src |-> <<"companyRecord", "companyName">>, map |-> "none"],
      [col |-> "Company Domain", src |-> <<"companyRecord", "companyDomain">>, map |-> "none"],
      [col |-> "Website", src |-> <<"companyRecord", "website">>, map |-> "none"],
      [col |-> "Description", src |-> <<"description">>, map |-> "none"],
      [col |-> "Scoop ID", src |-> <<"scoopId">>, map |-> "none"],
      [col |-> "Scoop Type", src |-> <<"scoopTypes", "scoopType">>, map |-> "scoopTypeMapping"],
      [col |-> "Scoop Topic", src |-> <<"scoopTopics", "scoopTopic">>, map |-> "scoopTopicMapping"] }

ApiColumns(apiType) ==
    CASE apiType = "Company Search" -> CompanyColumns
      [] apiType = "Person Search" -> PersonColumns
      [] apiType = "Contact Search" -> ContactColumns
      [] apiType = "Scoops Search" -> ScoopsColumns

\* one cell of the row literal
Cell(result, c) ==
    CASE c.map = "scoopTypeMapping" -> ScoopNames(result, c.src, scoopTypeMapping)
      [] c.map = "scoopTopicMapping" -> ScoopNames(result, c.src, scoopTopicMapping)
      [] OTHER -> Field(result, c.src)

\* transformResultToCsvRow: the row, from its column names to its cells,
\* unless a cell of the literal throws
transformResultToCsvRow(apiType, result) ==
    LET row == [col \in {c.col : c \in ApiColumns(apiType)} |->
                   Cell(result, CHOOSE c \in ApiColumns(apiType) : c.col = col)]
    IN  IF \E col \in DOMAIN row : row[col].t = "TypeError"
        THEN [threw |-> TRUE, row |-> <<>>]
        ELSE [threw |-> FALSE, row |-> row]

AllApiTypes == {"Company Search", "Person Search", "Contact Search", "Scoops Search"}

\* the source fields of a variant and the objects that hold them
SourceFields(apiType) == {c.src : c \in ApiColumns(apiType)}

Containers(apiType) ==
    {SubSeq(p, 1, n) : p \in {q \in SourceFields(apiType) : Len(q) > 1},
                       n \in 1 .. 2}
        \ SourceFields(apiType)

\* what the server sends in a field: a list of codes, one of them in no
\* table, for the scoop types and topics, a string elsewhere
FieldValue(path) ==
    CASE path = <<"scoopTypes", "scoopType">> -> Codes(<<11, 7>>)
      [] path = <<"scoopTopics", "scoopTopic">> -> Codes(<<226>>)
      [] OTHER -> Prim("v")

\* the record that holds the fields and the objects named by the paths;
\* at is the path of the record itself
RECURSIVE Record(_, _, _)
Record(apiType, paths, at) ==
    Rec([k \in {Head(p) : p \in paths} |->
            IF at \o <<k>> \in Containers(apiType)
            THEN Record(apiType,
                        {Tail(p) : p \in {q \in paths : Head(q) = k /\ Len(q) > 1}},
                        at \o <<k>>)
            ELSE FieldValue(at \o <<k>>)])

RECURSIVE SubsetsUpTo(_, _)
SubsetsUpTo(U, n) ==
    IF n = 0 THEN {{}}
    ELSE SubsetsUpTo(U, n - 1)
         \cup {s \cup {p} : s \in SubsetsUpTo(U, n - 1), p \in U}

\* the raw records of a variant: every record with at most MaxPresent of
\* its source fields or (empty) objects, and the record with all fields
RawRecords(apiType) ==
    {Record(apiType, S, <<>>) :
        S \in SubsetsUpTo(SourceFields(apiType) \cup Containers(apiType), MaxPresent)
              \cup {SourceFields(apiType)}}

RowInit ==
    /\ Idle
    /\ call \in UNION { { [fn |-> "transformResultToCsvRow", apiType |-> a,
                           result |-> r, returned |-> FALSE, threw |-> FALSE,
                           row |-> <<>>] : r \in RawRecords(a) } :
                        a \in AllApiTypes }

\* one call of transformResultToCsvRow
TransformResult ==
    /\ call.fn = "transformResultToCsvRow"
    /\ ~call.returned /\ ~call.threw
    /\ LET out == transformResultToCsvRow(call.apiType, call.result)
       IN  call' = [call EXCEPT !.returned = ~out.threw, !.threw = out.threw,
                                !.row = out.row]
    /\ IdleStep

RowSpec == RowInit /\ [][TransformResult]_vars

\* the raw record holds a value at the path
RECURSIVE Present(_, _)
Present(v, path) ==
    \/ path = <<>>
    \/ /\ v.t = "rec"
       /\ Head(path) \in DOMAIN v.v
       /\ Present(v.v[Head(path)], Tail(path))

RowDone == call.fn = "transformResultToCsvRow" /\ (call.returned \/ call.threw)

\* C18: for each of the four variants and every raw record the call
\* returns a row whose columns are the columns of the variant, the same for
\* every record, and every column whose source field the record does not
\* hold is the empty string.
C18_FixedColumns ==
    RowDone
        => /\ call.returned
           /\ DOMAIN call.row = {c.col : c \in ApiColumns(call.apiType)}
           /\ DOMAIN call.row
                 = DOMAIN transformResultToCsvRow(call.apiType, EmptyRec).row
           /\ \A c \in ApiColumns(call.apiType) :
                 ~Present(call.result, c.src)
                     => call.row[c.col].t = "prim" /\ call.row[c.col].v = ""

\* the row of a person with a location that holds the city only and an
\* empty employment history
C18_Witness ==
    /\ call.fn = "transformResultToCsvRow" /\ call.returned
    /\ call.apiType = "Person Search"
    /\ DOMAIN call.result.v = {"location", "employmentHistory"}
    /\ DOMAIN call.result.v["location"].v = {"City"}
    /\ DOMAIN call.result.v["employmentHistory"].v = {}
    /\ call.row["City"] = Prim("v")
    /\ call.row["State"] = Prim("")
    /\ call.row["Company Website 0"] = Prim("")
    /\ call.row["First Name"] = Prim("")

\* C19: every request is issued while isPaused is false (no callback that
\* issues a request changes isPaused after issuing it).
C19_NoRequestWhilePaused == sent # <<>> => ~isPaused

\* C20: when update-cookies with a valid bundle releases a controller that
\* waits after a 401/403 of the detail request for an identifier, and the
\* run was not stopped, the controller requests the details of that
\* identifier again.
C20_DetailRetrySameId ==
    [][\A c \in Runs :
          (ctl[c].pc = "cred2" /\ ValidUpdate(lastOp') /\ isScraping)
              => /\ ctl'[c].pc = "req2"
                 /\ ctl'[c].req = ctl[c].req
                 /\ \E i \in DOMAIN sent' :
                       sent'[i] = [c |-> c, kind |-> "detail", arg |-> ctl[c].req,
                                   headers |-> ctl[c].headers]]_vars

InPauseWait(r) == r.pc \in {"pause1", "pause2"}

\* C21: when stop-scraping is received for a run whose controller is
\* suspended in a pause-wait, the controller eventually returns and the sink
\* of the run is closed, whatever pause-scraping or resume-scraping
\* messages follow the stop.
C21_StopEndsPauseWait ==
    \A c \in 1 .. MaxRuns :
        [](( /\ lastOp.op = "stop-scraping"
             /\ c \in Runs /\ InPauseWait(ctl[c]) /\ ctl[c].stopInvoked )
              => <>( c \in Runs /\ ctl[c].pc = "done" /\ ctl[c].sink = "closed" ))

\* the interval of a pause-wait fires again and again: a pause-wait that
\* finds isPaused false at some tick infinitely often is left
PollFairness ==
    \A c \in 1 .. MaxRuns : WF_vars(Response(c)) /\ SF_vars(Timer(c))

PollSpec == Spec /\ PollFairness

InDelay(r) == r.pc \in {"delay1", "delay2"}

\* C22: a controller suspended in an inter-request delay finds its own
\* cancel handle in delayCancel (so that no timer expiry or cancellation of
\* another delay cleared or replaced it), and delayCancel is null when no
\* delay is pending.
C22_OneHandlePerDelay ==
    /\ \A c \in Runs : InDelay(ctl[c]) => delayCancel = c
    /\ (\A c \in Runs : ~InDelay(ctl[c])) => delayCancel = NoCtl

(***************************************************************************)
(* One run with a start index chosen by the user, against a server whose   *)
(* pages hold one record each: the pages a controller has consumed are the *)
(* records (step 1: the identifiers) it has collected.  Requests may fail  *)
(* with 401/403 and the window may pause, resume and refresh the cookies.  *)
(***************************************************************************)
OffsetData == [apiType : ApiTypes, cookies : {Bundle("a")},
               totalResults : 1 .. MaxOffsetTarget, startIdx : 0 .. MaxOffset]

StartOffset ==
    /\ ctl = <<>>
    /\ \E data \in OffsetData :
          Commit(StartHandler(World, data), Op("start-scraping", 0, 0))

OneResult(c) == ResponseOk(c, 1)

OffsetNext ==
    \/ StartOffset
    \/ PauseScraping
    \/ ResumeScraping
    \/ UpdateCookies(Bundle("b"))
    \/ \E c \in Runs : OneResult(c)
    \/ \E c \in Runs : ResponseAuth(c)
    \/ \E c \in Runs : DelayExpired(c)
    \/ \E c \in Runs : PauseTick(c)

OffsetSpec == Init /\ [][OffsetNext]_vars

\* C23: every page request of a run carries the start index of the run
\* config plus the number of pages the controller has consumed: the first
\* request carries the start index itself.
C23_PagesFromOffset ==
    \A i \in DOMAIN sent :
        sent[i].kind = "page"
            => sent[i].arg = scrapeData.startIdx + Collected(ctl[sent[i].c])

\* the page loop of a controller is over: it runs step 2 or has returned
PaginationOver(r) == r.pc \in {"req2", "delay2", "pause2", "cred2", "done"}

PageRequested(ms, c) == \E i \in DOMAIN ms : ms[i].c = c /\ ms[i].kind = "page"

\* the page request of controller c was answered with no results in the
\* last callback
EmptyPage(c) == ctl[c].pc = "req1" /\ lastOp' = Op("response", c, 0)

\* C24: a page response with zero results ends the pagination of its
\* controller: it requests no page any more, and the error notification is
\* sent if and only if no row was written for the run before the response.
C24_EmptyPageEndsRows ==
    [][\A c \in Runs :
          /\ EmptyPage(c)
                => /\ PaginationOver(ctl'[c])
                   /\ Notified(notes', "error", c) <=> ctl[c].rows = 0
          /\ PaginationOver(ctl[c]) => ~PageRequested(sent', c)]_vars

\* C24, amended: a page response with zero results ends the pagination of
\* its controller: it requests no page any more, and the error notification
\* is sent if and only if the controller had collected nothing before the
\* response, no row in scrapeDataFunction and no identifier in step 1 of
\* handleContactSearch.
C24_EmptyPageEnds ==
    [][\A c \in Runs :
          /\ EmptyPage(c)
                => /\ PaginationOver(ctl'[c])
                   /\ Notified(notes', "error", c) <=> Collected(ctl[c]) = 0
          /\ PaginationOver(ctl[c]) => ~PageRequested(sent', c)]_vars

\* the second page of a single-phase run with one row written came back
\* empty: the run finished and no error was sent
C24_Witness ==
    /\ lastOp = Op("response", 1, 0)
    /\ Len(ctl) = 1
    /\ ~TwoPhase(ctl[1])
    /\ ctl[1].rows = 1 /\ ctl[1].totalResults = 2
    /\ ctl[1].pc = "done" /\ ctl[1].finished /\ ~ctl[1].errored
    /\ notes = <<Note("scraping-finished", 1)>>

\* the detail request of controller c was answered with no contact in the
\* last callback
EmptyDetail(c) == ctl[c].pc = "req2" /\ lastOp' = Op("response", c, 0)

\* C25: a detail response with no contact writes no row and sends no error
\* notification; while the run is active and an identifier is left, the
\* controller requests the details of the next identifier of personIds; it
\* returns only when none is left or isScraping is false, and then the sink
\* is closed.
C25_EmptyDetailSkipped ==
    [][\A c \in Runs :
          EmptyDetail(c) =>
              LET r == ctl[c]
                  q == ctl'[c]
              IN  /\ written' = <<>>
                  /\ q.rows = r.rows
                  /\ ~Notified(notes', "error", c)
                  /\ q.errored = r.errored
                  /\ (isScraping /\ r.idx < Len(r.personIds))
                        => /\ q.pc = "req2"
                           /\ q.idx = r.idx + 1
                           /\ q.personIds = r.personIds
                           /\ sent' = <<[c |-> c, kind |-> "detail",
                                         arg |-> r.personIds[r.idx + 1],
                                         headers |-> r.headers]>>
                  /\ ~(isScraping /\ r.idx < Len(r.personIds))
                        => /\ q.pc = "done" /\ q.sink = "closed"
                           /\ sent' = <<>>]_vars

\* the details of the first of two identifiers came back empty and the
\* controller requested those of the second
C25_Witness ==
    /\ lastOp = Op("response", 1, 0)
    /\ Len(ctl) = 1
    /\ ctl[1].pc = "req2" /\ ctl[1].idx = 2 /\ ctl[1].rows = 0
    /\ ctl[1].personIds = <<PersonId(1, 1), PersonId(1, 2)>>
    /\ sent = <<[c |-> 1, kind |-> "detail", arg |-> PersonId(1, 2),
                 headers |-> ctl[1].headers]>>
    /\ notes = <<>>

\* C26: once stop-scraping was received for a run, and as long as no later
\* start-scraping was accepted, no callback issues a request for that run,
\* neither the stop handler itself nor a later response, timer or
\* update-cookies callback.
C26_NoRequestAfterStop ==
    [][\A c \in 1 .. Len(ctl') :
          (ctl'[c].stopInvoked /\ c = Len(ctl')) => ~Requested(sent', c)]_vars

\* a two-phase run was stopped while a page request was in flight; the
\* response filled personIds and the controller returned between the two
\* steps without a detail request
C26_Witness ==
    /\ lastOp = Op("response", 1, 1)
    /\ Len(ctl) = 1
    /\ TwoPhase(ctl[1])
    /\ ctl[1].stopInvoked
    /\ ctl[1].pc = "done" /\ ctl[1].sink = "closed"
    /\ Notified(notes, "progress-update", 1)
    /\ sent = <<>>

\* C27: isScraping goes from true to false only in the stop-scraping
\* handler or in a callback in which the controller of the latest run
\* returns, and while the controller of the latest run is live no earlier
\* invocation of startScraping sends scraping-finished.
C27_OwnCompletionOnly ==
    [][/\ (isScraping /\ ~isScraping')
            => \/ lastOp'.op = "stop-scraping"
               \/ /\ Live(ctl[Len(ctl)])
                  /\ ~Live(ctl'[Len(ctl)])
       /\ \A i \in DOMAIN notes' :
             notes'[i].type = "scraping-finished"
                 => \/ notes'[i].run = Len(ctl')
                    \/ ~Live(ctl'[Len(ctl')])]_vars

\* C28: stop-scraping received while no run is active (isScraping false and
\* no controller live) sends no scraping-stopped and changes no run state,
\* and scraping-stopped is sent at most once for a run.
C28_StopOncePerRun ==
    [][/\ (lastOp'.op = "stop-scraping" /\ ~isScraping /\ LiveRuns = {})
            => /\ ~\E i \in DOMAIN notes' : notes'[i].type = "scraping-stopped"
               /\ UNCHANGED <<isScraping, isPaused, wasStopped, scrapeData,
                              delayCancel, cookieWaiters, ctl>>
       /\ \A c \in Runs :
             ctl[c].stopInvoked => ~Notified(notes', "scraping-stopped", c)]_vars

(***************************************************************************)
(* The code lists of a scoop (lines 645-671): result.scoopTypes.scoopType  *)
(* and result.scoopTopics.scoopTopic hold up to MaxCodes codes each, codes *)
(* of the table of the list, a code of the other table and a code of       *)
(* neither.  The two cells are computed from their own list each: one list *)
(* varies while the other is a fixed list of two codes.                    *)
(***************************************************************************)
NoTableCode == 7

TypeCodes == {11, 21, 20, 4, 9}

TopicCodes == {50, 115, 226, 61, 41, 105, 116, 54}

SeqsUpTo(S, n) == UNION {[1 .. k -> S] : k \in 0 .. n}

Scoop(types, topics) ==
    Rec([scoopTypes |-> Rec([scoopType |-> Codes(types)]),
         scoopTopics |-> Rec([scoopTopic |-> Codes(topics)])])

Scoops ==
    {Scoop(types, <<226, 11>>) :
        types \in SeqsUpTo(TypeCodes \cup {NoTableCode, 50}, MaxCodes)}
    \cup {Scoop(<<4, NoTableCode>>, topics) :
              topics \in SeqsUpTo(TopicCodes \cup {NoTableCode, 11}, MaxCodes)}

ScoopInit ==
    /\ Idle
    /\ call \in { [fn |-> "transformResultToCsvRow", apiType |-> "Scoops Search",
                   result |-> r, returned |-> FALSE,
                   threw |-> FALSE, row |-> <<>>] : r \in Scoops }

ScoopSpec == ScoopInit /\ [][TransformResult]_vars

\* the cell holds the names of the codes, each followed by ", " but the last
NamesJoined(cell, codes, table) ==
    IF codes = <<>> THEN cell = Prim("")
    ELSE /\ cell.t = "text"
         /\ Len(cell.v) = 2 * Len(codes) - 1
         /\ \A i \in 1 .. Len(codes) :
               cell.v[2 * i - 1] = IF ToString(codes[i]) \in DOMAIN table
                                   THEN table[ToString(codes[i])]
                                   ELSE "Unknown"
         /\ \A i \in 1 .. Len(codes) - 1 : cell.v[2 * i] = ", "

\* C29: the Scoop Type cell of a scoop is the names of its type codes in
\* scoopTypeMapping and the Scoop Topic cell the names of its topic codes in
\* scoopTopicMapping, "Unknown" for a code that is not in the table, joined
\* by ", " in the order of the codes; the cell of an empty list is ''.
C29_CodesToNames ==
    RowDone
        => /\ call.returned
           /\ NamesJoined(call.row["Scoop Type"],
                          call.result.v.scoopTypes.v.scoopType.v, scoopTypeMapping)
           /\ NamesJoined(call.row["Scoop Topic"],
                          call.result.v.scoopTopics.v.scoopTopic.v, scoopTopicMapping)

\* a scoop with a known and an unknown type code, and with a topic code
\* followed by a code of the other table
C29_Witness ==
    /\ call.fn = "transformResultToCsvRow" /\ call.returned
    /\ call.result = Scoop(<<4, NoTableCode>>, <<226, 11>>)
    /\ call.row["Scoop Type"] = Text(<<"Mergers & Acquisitions", ", ", "Unknown">>)
    /\ call.row["Scoop Topic"] = Text(<<"Artificial Intelligence", ", ", "Unknown">>)

=============================================================================
